---- MODULE Spec2Model ----
(***************************************************************************)
(* Model of the news tool server: the two tool-surface coroutines of       *)
(* src/server.py (fetch_news, fetch_headlines) and the two connector       *)
(* coroutines of src/newsapi/connector.py (search_everything,              *)
(* get_top_headlines), with the response model of src/newsapi/models.py.   *)
(*                                                                         *)
(* Python values are tagged records: None, PyStr(s), PyInt(n).  A keyword  *)
(* mapping (a dict unpacked into a call) is a function from key strings to *)
(* values.  A coroutine runs without interleaving up to where it is        *)
(* suspended on the outbound HTTP request, and again from the arrival of   *)
(* the reply to its return; these are the two steps of a call.             *)
(*                                                                         *)
(* connector.py imports the response class under the name ArticleResponse  *)
(* while models.py defines it as NewsResponse; the model reads both names  *)
(* as the one class of models.py, i.e. it describes the server once it has *)
(* been loaded and configured.                                             *)
(***************************************************************************)
EXTENDS Integers, Sequences, FiniteSets, TLC

VARIABLES connector, frame, clients

vars == <<connector, frame, clients>>

(***************************************************************************)
(* Bounds of the model.                                                    *)
(***************************************************************************)
NumCalls == 2          \* tool invocations in flight at once (SpecConc)
MaxRequested == 101    \* largest page size a caller asks for
MaxArticles == 2       \* longest article list the upstream sends

(***************************************************************************)
(* Program constants.                                                      *)
(***************************************************************************)
ApiPageLimit == 100    \* min(page_size, 100)
DefaultPageSize == 10  \* page_size: int = 10
DefaultPage == 1       \* page: int = 1

(***************************************************************************)
(* Python values.                                                          *)
(***************************************************************************)
None == [t |-> "None"]
PyStr(s) == [t |-> "str", v |-> s]
PyInt(n) == [t |-> "int", v |-> n]

IsNone(x) == x.t = "None"

\* bool(x) as Python's `if x:` takes it
Truthy(x) ==
    CASE x.t = "None" -> FALSE
      [] x.t = "str" -> x.v # ""
      [] x.t = "int" -> x.v # 0

\* min(a, b) of Python: the first of the smallest
min(a, b) == IF b < a THEN b ELSE a

Restrict(f, S) == [k \in S |-> f[k]]

\* {k: v for k, v in m.items() if v is not None}
DropNone(m) == Restrict(m, {k \in DOMAIN m : ~IsNone(m[k])})

(***************************************************************************)
(* Validators.  TLA+ strings are atomic, so the characters of the date     *)
(* strings callers pass are given by a table; strptime reads the           *)
(* characters.                                                             *)
(***************************************************************************)
Chars ==
    ("2024-01-01" :> <<"2","0","2","4","-","0","1","-","0","1">>) @@
    ("2024-01-08" :> <<"2","0","2","4","-","0","1","-","0","8">>) @@
    ("2024-1-8"   :> <<"2","0","2","4","-","1","-","8">>) @@
    ("2024-02-29" :> <<"2","0","2","4","-","0","2","-","2","9">>) @@
    ("2023-02-29" :> <<"2","0","2","3","-","0","2","-","2","9">>) @@
    ("2024-13-01" :> <<"2","0","2","4","-","1","3","-","0","1">>) @@
    ("01-01-2024" :> <<"0","1","-","0","1","-","2","0","2","4">>) @@
    ("2024/01/01" :> <<"2","0","2","4","/","0","1","/","0","1">>) @@
    ("" :> <<>>)

DigitValue ==
    ("0" :> 0) @@ ("1" :> 1) @@ ("2" :> 2) @@ ("3" :> 3) @@ ("4" :> 4) @@
    ("5" :> 5) @@ ("6" :> 6) @@ ("7" :> 7) @@ ("8" :> 8) @@ ("9" :> 9)

IsDigit(ch) == ch \in DOMAIN DigitValue

RECURSIVE Number(_)
Number(cs) ==
    IF cs = <<>> THEN 0
    ELSE 10 * Number(SubSeq(cs, 1, Len(cs) - 1)) + DigitValue[cs[Len(cs)]]

\* %m of strptime: 1[0-2] | 0[1-9] | [1-9]
MatchesMonth(cs) ==
    \/ Len(cs) = 2 /\ cs[1] = "1" /\ cs[2] \in {"0", "1", "2"}
    \/ Len(cs) = 2 /\ cs[1] = "0" /\ IsDigit(cs[2]) /\ cs[2] # "0"
    \/ Len(cs) = 1 /\ IsDigit(cs[1]) /\ cs[1] # "0"

\* %d of strptime: 3[0-1] | [1-2]\d | 0[1-9] | [1-9] | " "[1-9]
MatchesDay(cs) ==
    \/ Len(cs) = 2 /\ cs[1] = "3" /\ cs[2] \in {"0", "1"}
    \/ Len(cs) = 2 /\ cs[1] \in {"1", "2"} /\ IsDigit(cs[2])
    \/ Len(cs) = 2 /\ cs[1] \in {"0", " "} /\ IsDigit(cs[2]) /\ cs[2] # "0"
    \/ Len(cs) = 1 /\ IsDigit(cs[1]) /\ cs[1] # "0"

IsLeap(y) == y % 4 = 0 /\ (y % 100 # 0 \/ y % 400 = 0)

DaysInMonth(y, m) ==
    CASE m \in {4, 6, 9, 11} -> 30
      [] m = 2 -> IF IsLeap(y) THEN 29 ELSE 28
      [] OTHER -> 31

\* datetime.strptime(s, "%Y-%m-%d") returns (TRUE) or raises ValueError (FALSE)
strptime_Ymd(s) ==
    LET cs == Chars[s]
        n == Len(cs)
    IN  /\ n >= 8
        /\ \A i \in 1..4 : IsDigit(cs[i])
        /\ cs[5] = "-"
        /\ \E ml \in {1, 2} :
              /\ n >= 7 + ml
              /\ cs[6 + ml] = "-"
              /\ MatchesMonth(SubSeq(cs, 6, 5 + ml))
              /\ MatchesDay(SubSeq(cs, 7 + ml, n))
              /\ LET y == Number(SubSeq(cs, 1, 4))
                     m == Number(SubSeq(cs, 6, 5 + ml))
                     dcs == SubSeq(cs, 7 + ml, n)
                     d == Number(IF dcs[1] = " " THEN Tail(dcs) ELSE dcs)
                 IN  y >= 1 /\ d <= DaysInMonth(y, m)

is_valid_date(date_str) ==
    IF IsNone(date_str) THEN TRUE ELSE strptime_Ymd(date_str.v)

\* NewsAPIConnector._is_valid_date, the connector's copy
connector_is_valid_date(date_str) ==
    IF IsNone(date_str) THEN TRUE ELSE strptime_Ymd(date_str.v)

valid_sort_options == {"relevancy", "popularity", "publishedAt"}


valid_categories ==
    {"business", "entertainment", "general", "health", "science", "sports",
     "technology"}

is_valid_category(category) == category.v \in valid_categories

(***************************************************************************)
(* Response models (pydantic).  A model keeps its declared fields and      *)
(* ignores every other key; a declared field that is missing fails the     *)
(* validation.  JSON null is the value JsonNull.                           *)
(***************************************************************************)
JsonNull == "<null>"

ArticleSourceFields == {"id", "name"}

ArticleFields ==
    {"source", "author", "title", "description", "url", "urlToImage",
     "publishedAt", "content"}

NewsResponseFields == {"status", "totalResults", "articles"}

ArticleValid(obj) ==
    /\ ArticleFields \subseteq DOMAIN obj
    /\ ArticleSourceFields \subseteq DOMAIN obj.source

Article(obj) ==
    [k \in ArticleFields |->
        IF k = "source" THEN Restrict(obj.source, ArticleSourceFields) ELSE obj[k]]

NewsResponseValid(data) ==
    /\ NewsResponseFields \subseteq DOMAIN data
    /\ \A i \in DOMAIN data.articles : ArticleValid(data.articles[i])

\* the NewsResponse built from data (constructor or model_validate), data valid
NewsResponse(data) ==
    [status |-> data.status,
     totalResults |-> data.totalResults,
     articles |-> [i \in DOMAIN data.articles |-> Article(data.articles[i])]]

(***************************************************************************)
(* What a coroutine does in one uninterrupted run: it returns a value,     *)
(* raises, or is suspended on the HTTP request it has issued.              *)
(***************************************************************************)
Return(v) == [kind |-> "return", value |-> v]
Raise(e) == [kind |-> "raise", exc |-> e]
Await(req) == [kind |-> "await", request |-> req]

\* an f-string message: fixed text followed by an interpolated detail
Msg(text, detail) == [text |-> text, detail |-> detail]

(***************************************************************************)
(* Binding of a keyword mapping to the signature it is unpacked into: a key *)
(* that names no parameter, or a parameter without default that no key     *)
(* names, raises TypeError.                                                *)
(***************************************************************************)
BindsOK(names, defaults, kwargs) ==
    /\ DOMAIN kwargs \subseteq names
    /\ (names \ DOMAIN defaults) \subseteq DOMAIN kwargs

Bind(names, defaults, kwargs) ==
    [p \in names |-> IF p \in DOMAIN kwargs THEN kwargs[p] ELSE defaults[p]]

(***************************************************************************)
(* NewsAPIConnector                                                        *)
(***************************************************************************)
search_everything_names ==
    {"query", "from_date", "to_date", "language", "sort_by", "page_size", "page"}

search_everything_defaults ==
    [from_date |-> None, to_date |-> None, language |-> PyStr("en"),
     sort_by |-> PyStr("publishedAt"), page_size |-> PyInt(DefaultPageSize),
     page |-> PyInt(DefaultPage)]

get_top_headlines_names == {"country", "category", "query", "page_size", "page"}

get_top_headlines_defaults ==
    [country |-> PyStr("us"), category |-> None, query |-> None,
     page_size |-> PyInt(DefaultPageSize), page |-> PyInt(DefaultPage)]

\* "pageSize": min(page_size, 100), but with the clamp left out
connector_page_size_unclamped(page_size) == page_size

\* "pageSize": min(page_size, 100)
connector_page_size(page_size) == min(page_size, ApiPageLimit)

\* the params of search_everything, for bound arguments a
search_everything_params(a) ==
    LET base == [q |-> a.query, language |-> a.language, sortBy |-> a.sort_by,
                 pageSize |-> PyInt(connector_page_size(a.page_size.v)),
                 page |-> a.page]
        withFrom == IF Truthy(a.from_date) THEN ("from" :> a.from_date) @@ base
                    ELSE base
    IN  IF Truthy(a.to_date) THEN ("to" :> a.to_date) @@ withFrom ELSE withFrom

\* the params of get_top_headlines, with `is not None` in place of truthiness
get_top_headlines_params_not_none(a) ==
    LET base == [country |-> a.country,
                 pageSize |-> PyInt(connector_page_size(a.page_size.v)),
                 page |-> a.page]
        withCategory == IF ~IsNone(a.category)
                        THEN ("category" :> a.category) @@ base ELSE base
    IN  IF ~IsNone(a.query) THEN ("q" :> a.query) @@ withCategory
        ELSE withCategory

\* the params of get_top_headlines, for bound arguments a
get_top_headlines_params(a) ==
    LET base == [country |-> a.country,
                 pageSize |-> PyInt(connector_page_size(a.page_size.v)),
                 page |-> a.page]
        withCategory == IF Truthy(a.category)
                        THEN ("category" :> a.category) @@ base ELSE base
    IN  IF Truthy(a.query) THEN ("q" :> a.query) @@ withCategory
        ELSE withCategory

\* search_everything called with the mapping kwargs, up to the request
search_everything_begin(kwargs) ==
    IF ~BindsOK(search_everything_names, search_everything_defaults, kwargs)
    THEN Raise("TypeError")
    ELSE LET a == Bind(search_everything_names, search_everything_defaults, kwargs)
         IN  IF ~connector_is_valid_date(a.from_date)
             THEN Return(<<FALSE, Msg("Invalid from_date format. Use YYYY-MM-DD.", "")>>)
             ELSE IF ~connector_is_valid_date(a.to_date)
             THEN Return(<<FALSE, Msg("Invalid to_date format. Use YYYY-MM-DD.", "")>>)
             ELSE IF a.sort_by.v \notin valid_sort_options
             THEN Return(<<FALSE, Msg("sort_by must be one of ", "valid_sort_options")>>)
             ELSE Await([path |-> "everything", params |-> search_everything_params(a)])

\* get_top_headlines called with the mapping kwargs, up to the request
get_top_headlines_begin(kwargs) ==
    IF ~BindsOK(get_top_headlines_names, get_top_headlines_defaults, kwargs)
    THEN Raise("TypeError")
    ELSE LET a == Bind(get_top_headlines_names, get_top_headlines_defaults, kwargs)
         IN  IF Truthy(a.category) /\ a.category.v \notin valid_categories
             THEN Return(<<FALSE, Msg("category must be one of ", "valid_categories")>>)
             ELSE Await([path |-> "top-headlines",
                         params |-> get_top_headlines_params(a)])

(***************************************************************************)
(* The reply to a request: client.get raised exc, or a response arrived    *)
(* with a status code and a body that is JSON (data) or is not.            *)
(***************************************************************************)
NoData == [absent |-> TRUE]

Failed(exc) == [exc |-> exc, status_code |-> 0, json |-> FALSE, data |-> NoData]
Response(code, isJson, data) ==
    [exc |-> "", status_code |-> code, json |-> isJson, data |-> data]

\* the classes an exception is an instance of
ExceptionClasses(exc) ==
    CASE exc = "ConnectError" ->
            {"ConnectError", "TransportError", "RequestError", "HTTPError", "Exception"}
      [] exc = "ReadTimeout" ->
            {"ReadTimeout", "TimeoutException", "TransportError", "RequestError",
             "HTTPError", "Exception"}
      [] exc = "HTTPStatusError" -> {"HTTPStatusError", "HTTPError", "Exception"}
      [] exc = "JSONDecodeError" -> {"JSONDecodeError", "ValueError", "Exception"}
      [] exc = "ValidationError" -> {"ValidationError", "ValueError", "Exception"}
      [] OTHER -> {exc, "Exception"}

\* the body of the try: the decoded response, or the exception it raises
try_body(reply) ==
    IF reply.exc # "" THEN [exc |-> reply.exc, decoded |-> FALSE]
    ELSE IF reply.status_code \notin 200..299
    THEN [exc |-> "HTTPStatusError", decoded |-> FALSE]
    ELSE IF ~reply.json THEN [exc |-> "JSONDecodeError", decoded |-> TRUE]
    ELSE IF ~NewsResponseValid(reply.data)
    THEN [exc |-> "ValidationError", decoded |-> TRUE]
    ELSE [exc |-> "", decoded |-> TRUE, value |-> NewsResponse(reply.data)]

\* the try/except of search_everything and get_top_headlines: (success, result)
connector_finish(reply) ==
    LET r == try_body(reply)
    IN  IF r.exc = "" THEN <<TRUE, r.value>>
        ELSE IF "RequestError" \in ExceptionClasses(r.exc)
        THEN <<FALSE, Msg("Request error: ", r.exc)>>
        ELSE <<FALSE, Msg("Unexpected error: ", r.exc)>>

\* get_client handing every call the one client kept on the connector
get_client_shared(c) == 1

\* get_client of call c: a client object of its own
get_client(c) == c

(***************************************************************************)
(* Tool surface (server.py).  The ctx argument only logs and is left out.  *)
(***************************************************************************)
\* error_response, but with a total that is not zero
error_response_keeps_total(message) ==
    NewsResponse([status |-> "error", message |-> message, articles |-> <<>>,
                  totalResults |-> 1])

error_response(message) ==
    NewsResponse([status |-> "error", message |-> message, articles |-> <<>>,
                  totalResults |-> 0])

\* "pageSize": min(page_size, 100) of fetch_news and fetch_headlines
tool_page_size(page_size) == min(page_size, ApiPageLimit)

\* is_valid_sort_by, accepting everything
is_valid_sort_by_any(sort_by) == TRUE

is_valid_sort_by(sort_by) == sort_by.v \in valid_sort_options

\* the validation of fetch_news: the message of the first failure, or ""
fetch_news_check(args) ==
    IF ~is_valid_date(args.from_date)
    THEN "Invalid 'from_date' format. Use YYYY-MM-DD."
    ELSE IF ~is_valid_date(args.to_date)
    THEN "Invalid 'to_date' format. Use YYYY-MM-DD."
    ELSE IF ~is_valid_sort_by(args.sort_by)
    THEN "Invalid 'sort_by' value. Use 'relevancy', 'popularity', 'publishedAt'."
    ELSE ""

\* the params mapping fetch_news unpacks into search_everything
fetch_news_params(args) ==
    DropNone(("q" :> args.query) @@ ("from" :> args.from_date) @@
             ("to" :> args.to_date) @@ ("language" :> args.language) @@
             ("sortBy" :> args.sort_by) @@
             ("pageSize" :> PyInt(tool_page_size(args.page_size.v))) @@
             ("page" :> args.page))

\* fetch_news after the connector has returned (success, result)
fetch_news_finish(pair) ==
    IF ~pair[1] THEN error_response("Failed to fetch news articles.") ELSE pair[2]

\* fetch_news(args), up to the request
fetch_news_begin(args) ==
    IF fetch_news_check(args) # "" THEN Return(error_response(fetch_news_check(args)))
    ELSE LET r == search_everything_begin(fetch_news_params(args))
         IN  IF r.kind = "return" THEN Return(fetch_news_finish(r.value)) ELSE r

\* the validation of fetch_headlines: the message of the failure, or ""
fetch_headlines_check(args) ==
    IF Truthy(args.category) /\ ~is_valid_category(args.category)
    THEN "Invalid 'category' value. Use 'business', 'entertainment', 'health', 'science', 'sports', or 'technology'."
    ELSE ""

\* the params mapping fetch_headlines unpacks into get_top_headlines
fetch_headlines_params(args) ==
    DropNone(("q" :> args.query) @@ ("country" :> args.country) @@
             ("category" :> args.category) @@
             ("pageSize" :> PyInt(tool_page_size(args.page_size.v))) @@
             ("page" :> args.page))

\* fetch_headlines after the connector has returned (success, result)
fetch_headlines_finish(pair) ==
    IF ~pair[1] THEN error_response("Failed to fetch headlines.") ELSE pair[2]

\* fetch_headlines(args), up to the request
fetch_headlines_begin(args) ==
    IF fetch_headlines_check(args) # ""
    THEN Return(error_response(fetch_headlines_check(args)))
    ELSE LET r == get_top_headlines_begin(fetch_headlines_params(args))
         IN  IF r.kind = "return" THEN Return(fetch_headlines_finish(r.value)) ELSE r

(***************************************************************************)
(* State.  connector is the module-level NewsAPIConnector (its two         *)
(* settings); frame[c] is the coroutine frame of tool invocation c, with   *)
(* the record of what the call did; clients[h] is the state of the HTTP    *)
(* client object h.                                                        *)
(***************************************************************************)
Calls == 1..NumCalls

NoOutcome == [kind |-> "none"]

NoRequest == [path |-> "", params |-> <<>>]

IdleFrame ==
    [op |-> "idle", pc |-> "idle", args |-> <<>>, handed |-> FALSE,
     kwargs |-> <<>>, client |-> 0, sent |-> 0, request |-> NoRequest,
     url |-> <<>>, headers |-> <<>>, replied |-> FALSE, reply |-> Failed(""),
     decoded |-> FALSE, outcome |-> NoOutcome]

ToolOps == {"fetch_news", "fetch_headlines"}

Init ==
    /\ connector = [api_key |-> "key", base_url |-> "https://newsapi.example/v2/"]
    /\ frame = [c \in Calls |-> IdleFrame]
    /\ clients = [h \in Calls |-> "unopened"]

\* Call c runs from its invocation to its first suspension: step is what the
\* coroutine of op does with args; handed says whether it unpacked kwargs
\* into the connector.  An awaited request is sent on the call's client,
\* entered with `async with`; a client that is not unopened cannot be entered.
Begin(c, op, args, handed, kwargs, step) ==
    LET h == get_client(c)
        called == [IdleFrame EXCEPT !.op = op, !.args = args, !.handed = handed,
                                    !.kwargs = kwargs]
    IN  /\ IF step.kind # "await"
           THEN /\ frame' = [frame EXCEPT ![c] =
                       [called EXCEPT !.pc = "done", !.outcome = step]]
                /\ UNCHANGED clients
           ELSE IF clients[h] # "unopened"
           THEN /\ frame' = [frame EXCEPT ![c] =
                       [called EXCEPT !.pc = "done", !.client = h,
                                      !.outcome = Raise("RuntimeError")]]
                /\ UNCHANGED clients
           ELSE /\ frame' = [frame EXCEPT ![c] =
                       [called EXCEPT !.pc = "awaiting", !.client = h, !.sent = 1,
                                      !.request = step.request,
                                      !.url = <<connector.base_url, step.request.path>>,
                                      !.headers = [X_Api_Key |-> connector.api_key]]]
                /\ clients' = [clients EXCEPT ![h] = "open"]
        /\ UNCHANGED connector

FetchNews(c, args) ==
    /\ frame[c].pc = "idle"
    /\ Begin(c, "fetch_news", args, fetch_news_check(args) = "",
             IF fetch_news_check(args) = "" THEN fetch_news_params(args) ELSE <<>>,
             fetch_news_begin(args))

FetchHeadlines(c, args) ==
    /\ frame[c].pc = "idle"
    /\ Begin(c, "fetch_headlines", args, fetch_headlines_check(args) = "",
             IF fetch_headlines_check(args) = "" THEN fetch_headlines_params(args)
             ELSE <<>>,
             fetch_headlines_begin(args))

SearchEverything(c, kwargs) ==
    /\ frame[c].pc = "idle"
    /\ Begin(c, "search_everything", kwargs, TRUE, kwargs,
             search_everything_begin(kwargs))

GetTopHeadlines(c, kwargs) ==
    /\ frame[c].pc = "idle"
    /\ Begin(c, "get_top_headlines", kwargs, TRUE, kwargs,
             get_top_headlines_begin(kwargs))

\* The reply to the request of call c arrives: the connector coroutine runs
\* its try/except, leaves the `async with` (the client is closed) and
\* returns; a tool-surface coroutine awaiting it goes on to its own return.
Reply(c, reply) ==
    LET f == frame[c]
        pair == connector_finish(reply)
        out == CASE f.op = "fetch_news" -> fetch_news_finish(pair)
                 [] f.op = "fetch_headlines" -> fetch_headlines_finish(pair)
                 [] OTHER -> pair
    IN  /\ f.pc = "awaiting"
        /\ frame' = [frame EXCEPT ![c] =
              [f EXCEPT !.pc = "done", !.replied = TRUE, !.reply = reply,
                        !.decoded = try_body(reply).decoded,
                        !.outcome = Return(out)]]
        /\ clients' = [clients EXCEPT ![f.client] = "closed"]
        /\ UNCHANGED connector

\* The caller takes the outcome of call c; the frame and the client object
\* the call made are gone, and the next call of the slot makes its own.
Consume(c) ==
    /\ frame[c].pc = "done"
    /\ frame' = [frame EXCEPT ![c] = IdleFrame]
    /\ clients' = [clients EXCEPT ![c] = "unopened"]
    /\ UNCHANGED connector

(***************************************************************************)
(* Inputs: the arguments callers pass and the replies the upstream gives.  *)
(***************************************************************************)
PageSizes == {-1, 0, DefaultPageSize} \cup (ApiPageLimit - 1 .. MaxRequested)

GoodDates == {"2024-01-01", "2024-01-08", "2024-1-8", "2024-02-29"}

BadDates == {"01-01-2024", "2024-13-01", "2023-02-29", "2024/01/01", ""}

FromDates == {None, PyStr("2024-01-01"), PyStr("01-01-2024"), PyStr("2023-02-29"),
              PyStr("")}

ToDates == {None, PyStr("2024-01-08"), PyStr("2024-1-8"), PyStr("2024-13-01")}

SortBys == {"publishedAt", "popularity", "newest"}

Categories == {None, PyStr(""), PyStr("technology"), PyStr("politics")}

NewsArgs ==
    {[query |-> PyStr("technology"), from_date |-> f, to_date |-> t,
      language |-> PyStr("en"), sort_by |-> PyStr(s), page_size |-> PyInt(n),
      page |-> PyInt(DefaultPage)] :
        f \in FromDates, t \in ToDates, s \in SortBys, n \in PageSizes}

HeadlinesArgs ==
    {[category |-> k, query |-> q, country |-> PyStr("us"),
      page_size |-> PyInt(n), page |-> PyInt(DefaultPage)] :
        k \in Categories, q \in {None, PyStr("ai")}, n \in PageSizes}

\* a keyword the caller leaves out
Absent == [t |-> "absent"]

DropAbsent(m) == Restrict(m, {k \in DOMAIN m : m[k].t # "absent"})

\* the mappings of the connector's tests, keyed by the upstream's names
TestSearchKwargs ==
    {("q" :> PyStr("technology")) @@ ("from" :> PyStr("2024-01-01")) @@
     ("to" :> PyStr("2024-01-08")) @@ ("language" :> PyStr("en")) @@
     ("sortBy" :> PyStr("publishedAt")) @@ ("pageSize" :> PyInt(5)) @@
     ("page" :> PyInt(1)),
     ("q" :> PyStr("artificial intelligence research")) @@
     ("from" :> PyStr("2024-01-01")) @@ ("language" :> PyStr("en")) @@
     ("sortBy" :> PyStr("relevancy")) @@ ("pageSize" :> PyInt(5)) @@
     ("page" :> PyInt(1))}

TestHeadlinesKwargs ==
    {("country" :> PyStr("us")) @@ ("category" :> PyStr("technology")) @@
     ("pageSize" :> PyInt(5)) @@ ("page" :> PyInt(1))}

\* no arguments at all
NoKwargs == <<>>

SearchKwargs ==
    {DropAbsent([query |-> PyStr("technology"), from_date |-> f, to_date |-> t,
                 sort_by |-> s, page_size |-> n]) :
        f \in {Absent, None, PyStr("2024-01-01"), PyStr("01-01-2024")},
        t \in {Absent, PyStr("2024-1-8"), PyStr("2024-13-01")},
        s \in {Absent, PyStr("relevancy"), PyStr("newest")},
        n \in {Absent} \cup {PyInt(k) : k \in PageSizes}}
    \cup TestSearchKwargs \cup {NoKwargs}

TopHeadlinesKwargs ==
    {DropAbsent([category |-> k, query |-> q, page_size |-> n]) :
        k \in {Absent} \cup Categories,
        q \in {Absent, None, PyStr(""), PyStr("ai")},
        n \in {Absent} \cup {PyInt(k) : k \in PageSizes}}
    \cup TestHeadlinesKwargs

A1 ==
    [source |-> [id |-> JsonNull, name |-> "Example"], author |-> JsonNull,
     title |-> "T", description |-> JsonNull, url |-> "https://example.com/t",
     urlToImage |-> JsonNull, publishedAt |-> "2024-01-02T00:00:00Z",
     content |-> JsonNull]

A2 ==
    [source |-> [id |-> "wire", name |-> "Wire", category |-> "general"],
     author |-> "A. Writer", title |-> "U", description |-> "d",
     url |-> "https://example.com/u", urlToImage |-> JsonNull,
     publishedAt |-> JsonNull, content |-> "c", rank |-> "1"]

\* an article object without the author key
ABad == [k \in ArticleFields \ {"author"} |-> A1[k]]

ArticleLists == UNION {[1..n -> {A1, A2}] : n \in 0..MaxArticles}

DecodableBodies ==
    {[status |-> st, totalResults |-> n, articles |-> as] :
        st \in {"ok", "error"}, n \in 0..MaxArticles, as \in ArticleLists}
    \cup {[status |-> "error", totalResults |-> 1, articles |-> <<A1>>,
           code |-> "maintenance", message |-> "try later"]}

UndecodableBodies ==
    {[status |-> "error", code |-> "rateLimited", message |-> "too many requests"],
     [status |-> "ok", articles |-> <<A1>>],
     [status |-> "ok", totalResults |-> 1, articles |-> <<ABad>>]}

ErrorStatusCodes == {429, 500}

Replies ==
    {Failed("ConnectError"), Failed("ReadTimeout")}
    \cup {Response(code, TRUE,
                   [status |-> "error", code |-> "rateLimited",
                    message |-> "too many requests"]) : code \in ErrorStatusCodes}
    \cup {Response(200, FALSE, NoData)}
    \cup {Response(200, TRUE, b) : b \in DecodableBodies \cup UndecodableBodies}

(***************************************************************************)
(* Spec: one tool invocation at a time, over all the inputs.               *)
(***************************************************************************)
Next ==
    \/ \E args \in NewsArgs : FetchNews(1, args)
    \/ \E args \in HeadlinesArgs : FetchHeadlines(1, args)
    \/ \E kwargs \in SearchKwargs : SearchEverything(1, kwargs)
    \/ \E kwargs \in TopHeadlinesKwargs : GetTopHeadlines(1, kwargs)
    \/ \E reply \in Replies : Reply(1, reply)
    \/ Consume(1)

Spec == Init /\ [][Next]_vars

(***************************************************************************)
(* SpecConc: NumCalls tool invocations in flight at once, interleaved at   *)
(* their suspensions, over a few inputs of each kind.                      *)
(***************************************************************************)
ConcNewsArgs ==
    {a \in NewsArgs :
        /\ a.from_date \in {None, PyStr("01-01-2024")}
        /\ a.to_date = None
        /\ a.sort_by = PyStr("publishedAt")
        /\ a.page_size = PyInt(DefaultPageSize)}

ConcHeadlinesArgs ==
    {a \in HeadlinesArgs :
        /\ a.category \in {PyStr("technology"), PyStr("politics")}
        /\ a.query = None
        /\ a.page_size = PyInt(DefaultPageSize)}

ConcSearchKwargs ==
    {[query |-> PyStr("technology")],
     [query |-> PyStr("technology"), sort_by |-> PyStr("newest")]}

ConcTopHeadlinesKwargs ==
    {NoKwargs, [category |-> PyStr("technology"), page_size |-> PyInt(ApiPageLimit + 1)]}

ConcReplies ==
    {Failed("ReadTimeout"),
     Response(429, TRUE, [status |-> "error", code |-> "rateLimited",
                          message |-> "too many requests"]),
     Response(200, TRUE, [status |-> "ok", totalResults |-> 1, articles |-> <<A1>>]),
     Response(200, TRUE, [status |-> "ok", totalResults |-> 1, articles |-> <<A2>>])}

NextConc ==
    \E c \in Calls :
        \/ \E args \in ConcNewsArgs : FetchNews(c, args)
        \/ \E args \in ConcHeadlinesArgs : FetchHeadlines(c, args)
        \/ \E kwargs \in ConcSearchKwargs : SearchEverything(c, kwargs)
        \/ \E kwargs \in ConcTopHeadlinesKwargs : GetTopHeadlines(c, kwargs)
        \/ \E reply \in ConcReplies : Reply(c, reply)
        \/ Consume(c)

SpecConc == Init /\ [][NextConc]_vars

(***************************************************************************)
(* Vocabulary of the properties.  Invalid inputs are named by value, not   *)
(* by the validators.                                                      *)
(***************************************************************************)
Done(c) == frame[c].pc = "done"

Returned(c) == Done(c) /\ frame[c].outcome.kind = "return"

IsBadDate(x) == x.t = "str" /\ x.v \in BadDates

InvalidToolInput(c) ==
    LET a == frame[c].args
    IN  \/ /\ frame[c].op = "fetch_news"
           /\ \/ IsBadDate(a.from_date)
              \/ IsBadDate(a.to_date)
              \/ a.sort_by.v \notin {"relevancy", "popularity", "publishedAt"}
        \/ /\ frame[c].op = "fetch_headlines"
           /\ a.category.t = "str"
           /\ a.category.v \notin
                 {"", "business", "entertainment", "general", "health",
                  "science", "sports", "technology"}

\* the page size the caller of call c asked for
RequestedPageSize(c) ==
    IF "page_size" \in DOMAIN frame[c].args THEN frame[c].args.page_size.v
    ELSE DefaultPageSize

\* the caller of call c supplied the optional argument name
Supplied(c, name) ==
    /\ name \in DOMAIN frame[c].args
    /\ frame[c].args[name].t = "str"
    /\ frame[c].args[name].v # ""

SearchOps == {"fetch_news", "search_everything"}

UpstreamNames(op) ==
    IF op \in SearchOps
    THEN {"q", "from", "to", "language", "sortBy", "pageSize", "page"}
    ELSE {"country", "category", "q", "pageSize", "page"}

\* the reply to call c was a 2xx response with a well-formed body
WellFormedReply(c) ==
    /\ frame[c].replied
    /\ frame[c].reply.exc = ""
    /\ frame[c].reply.status_code \in 200..299
    /\ frame[c].reply.json
    /\ NewsResponseValid(frame[c].reply.data)

\* C1: every fetch_news / fetch_headlines invocation ends by returning a
\* response to its caller; none ends by raising.
C1_ToolCallsReturn ==
    \A c \in Calls :
        Done(c) /\ frame[c].op \in ToolOps => frame[c].outcome.kind = "return"

\* C2: a tool call whose input fails validation returns status "error", no
\* articles, totalResults 0, and the returned value carries the message.
C2_ValidationErrorCarriesMessage ==
    \A c \in Calls :
        Done(c) /\ frame[c].op \in ToolOps /\ InvalidToolInput(c) =>
            /\ frame[c].outcome.kind = "return"
            /\ frame[c].outcome.value.status = "error"
            /\ frame[c].outcome.value.articles = <<>>
            /\ frame[c].outcome.value.totalResults = 0
            /\ "message" \in DOMAIN frame[c].outcome.value

\* C3: a tool call whose input fails validation never issues an HTTP
\* request, and it returns status "error".
C3_ValidationPrecedesNetwork ==
    \A c \in Calls :
        frame[c].op \in ToolOps /\ InvalidToolInput(c) =>
            /\ frame[c].sent = 0
            /\ frame[c].pc # "awaiting"
            /\ Done(c) => /\ frame[c].outcome.kind = "return"
                          /\ frame[c].outcome.value.status = "error"

C3_Witness ==
    \E c \in Calls :
        /\ Returned(c)
        /\ frame[c].op = "fetch_news"
        /\ frame[c].args.from_date = PyStr("01-01-2024")
        /\ frame[c].outcome.value.status = "error"
        /\ frame[c].sent = 0

\* C4: a mapping keyed by the upstream's names is accepted by the connector,
\* and when the upstream answers 2xx with a well-formed body the call hands
\* back (True, response) with the body's status, total and articles in order.
C4_UpstreamKeyedCallSucceeds ==
    \A c \in Calls :
        /\ Done(c)
        /\ frame[c].handed
        /\ DOMAIN frame[c].kwargs \subseteq UpstreamNames(frame[c].op)
        /\ DOMAIN frame[c].kwargs # {}
        =>  /\ frame[c].outcome.kind = "return"
            /\ WellFormedReply(c) =>
                  LET r == IF frame[c].op \in ToolOps THEN frame[c].outcome.value
                           ELSE frame[c].outcome.value[2]
                      d == frame[c].reply.data
                  IN  /\ frame[c].op \notin ToolOps => frame[c].outcome.value[1]
                      /\ r.status = d.status
                      /\ r.totalResults = d.totalResults
                      /\ Len(r.articles) = Len(d.articles)
                      /\ \A i \in DOMAIN d.articles :
                            r.articles[i].title = d.articles[i].title

\* C5: after a non-2xx response the call fails with the "Request error"
\* message, not the "Unexpected error" one, and the body is not decoded.
C5_Non2xxIsRequestError ==
    \A c \in Calls :
        /\ Done(c)
        /\ frame[c].replied
        /\ frame[c].reply.exc = ""
        /\ frame[c].reply.status_code \notin 200..299
        =>  /\ ~frame[c].decoded
            /\ frame[c].outcome.kind = "return"
            /\ IF frame[c].op \in ToolOps
               THEN frame[c].outcome.value.status = "error"
               ELSE /\ ~frame[c].outcome.value[1]
                    /\ frame[c].outcome.value[2].text = "Request error: "

C7_PageSizeClamped ==
    \A c \in Calls :
        /\ frame[c].sent = 1 =>
              frame[c].request.params.pageSize.v =
                  IF RequestedPageSize(c) > 100 THEN 100 ELSE RequestedPageSize(c)
        /\ frame[c].handed /\ frame[c].op \in ToolOps =>
              /\ frame[c].kwargs.pageSize.v =
                    IF RequestedPageSize(c) > 100 THEN 100 ELSE RequestedPageSize(c)
              /\ connector_page_size(frame[c].kwargs.pageSize.v) =
                    frame[c].kwargs.pageSize.v

C7_Witness ==
    \E c \in Calls :
        /\ frame[c].sent = 1
        /\ RequestedPageSize(c) > 100
        /\ frame[c].request.params.pageSize.v = 100

OutcomeAlone(c) ==
    LET op == frame[c].op
        a == frame[c].args
        step == CASE op = "fetch_news" -> fetch_news_begin(a)
                  [] op = "fetch_headlines" -> fetch_headlines_begin(a)
                  [] op = "search_everything" -> search_everything_begin(a)
                  [] op = "get_top_headlines" -> get_top_headlines_begin(a)
        pair == connector_finish(frame[c].reply)
    IN  IF step.kind # "await" THEN step
        ELSE CASE op = "fetch_news" -> Return(fetch_news_finish(pair))
               [] op = "fetch_headlines" -> Return(fetch_headlines_finish(pair))
               [] OTHER -> Return(pair)

\* C9: with several calls in flight in any interleaving, the outcome of each
\* call is the one it has alone with the same arguments and reply, and no
\* two calls use the same client.
C9_CallsAreIndependent ==
    \A c \in Calls :
        /\ Done(c) => frame[c].outcome = OutcomeAlone(c)
        /\ \A d \in Calls \ {c} :
              frame[c].client # 0 => frame[d].client # frame[c].client

C9_Witness ==
    \E c, d \in Calls :
        /\ c # d
        /\ Done(c) /\ frame[c].replied /\ frame[c].outcome.value[1]
        /\ frame[d].pc = "awaiting"
        /\ frame[d].op = frame[c].op

\* C10: get_top_headlines called with no arguments returns (False, message),
\* never (True, response).
C10_NoArgumentsFails ==
    \A c \in Calls :
        Done(c) /\ frame[c].op = "get_top_headlines" /\ DOMAIN frame[c].args = {} =>
            /\ frame[c].outcome.kind = "return"
            /\ ~frame[c].outcome.value[1]

====
